---------------------------- MODULE Spec2Model ----------------------------
(***************************************************************************)
(* Asthmaapp.py: a Streamlit dashboard.  The script runs top to bottom on  *)
(* every interaction of a session (a rerun): it loads the record file into *)
(* st.session_state.patient_records, assembles the feature row from the    *)
(* sidebar form, and then runs the branch of the pressed button (predict,  *)
(* export, clear).  The record file and the export file are on disk and    *)
(* are shared by all sessions.                                             *)
(*                                                                         *)
(* Numbers are integers in thousandths (30 years = 30000, BMI 22.5 = 22500,*)
(* a risk of 29.99 % = 29990); a probability is an integer in 1/ProbScale. *)
(***************************************************************************)
EXTENDS Integers, Sequences, FiniteSets, TLC

VARIABLES
    expected_features,  \* model.feature_names_in_.tolist()
    patient_records,    \* st.session_state.patient_records (one session)
    file,               \* RECORD_FILE on disk
    xlsx,               \* asthma_predictions.xlsx on disk
    show_history,       \* the "Show All Patient Predictions" checkbox
    error,              \* the exception the last rerun surfaced, or "none"
    lastOp,             \* the interaction the last rerun served
    erased,             \* records the last rerun's clear found and erased
    appended,           \* rows saved since the last clear or failed write
    input_dict,         \* the sidebar's sixteen values
    input_data,         \* the row handed to the predictor
    prob,               \* model.predict_proba(input_data)[0][1]
    risk_percent,
    risk_level,
    action,
    top_risks,
    pc,                 \* position of the single prediction run
    sessions,           \* concurrent sessions: position and local store
    reported            \* records a concurrent session reported as saved

storeVars == <<expected_features, patient_records, file, xlsx, show_history,
               error, lastOp, erased, appended>>
predictVars == <<input_dict, input_data, prob, risk_percent, risk_level,
                 action, top_risks, pc>>
concVars == <<sessions, reported>>
vars == <<storeVars, predictVars, concVars>>

-----------------------------------------------------------------------------
(* Bounds of the model. *)
MaxRecords == 2      \* records the single session's store grows to
MaxFeatures == 3     \* length of the enumerated declared feature lists
MaxAppends == 2      \* appends of one concurrent session

(* Units: three decimals (round(fev1 / fvc, 3)), and a probability grid on *)
(* which prob * 100 is a whole number of thousandths of a percent.         *)
Milli == 1000
ProbScale == 100000

-----------------------------------------------------------------------------
(* Cells of a DataFrame: a string, a number (thousandths) or NaN. *)
Str(s) == <<"str", s>>
Num(n) == <<"num", n>>
NaN == <<"nan", "">>

(* Fields of a CSV line: the decimal numeral of a number, or other text.   *)
(* Text that spells a number is the same field as that number's numeral.   *)
Dec(n) == <<"dec", n>>
Txt(s) == <<"txt", s>>

(* The strings of the model that spell a number, with the number. *)
NumericText == [t \in {"42"} |-> 42 * Milli]

(* pandas' default na_values that the model's strings can spell. *)
NAValues == {"", "NA", "NaN", "null", "N/A"}

(* A DataFrame: column names and rows of cells aligned with them. *)
Frame(cols, rows) == [columns |-> cols, rows |-> rows]
EmptyFrame == Frame(<<>>, <<>>)

(* A file on disk: absent, or a header line and data lines (a file that    *)
(* exists with no header is the zero-byte file).                           *)
NoFile == [exists |-> FALSE, header |-> <<>>, lines |-> <<>>]
ZeroByteFile == [exists |-> TRUE, header |-> <<>>, lines |-> <<>>]

Range(s) == {s[i] : i \in DOMAIN s}
IndexOf(s, x) == CHOOSE i \in DOMAIN s : s[i] = x

-----------------------------------------------------------------------------
(* The sidebar form and the feature row (lines 32-80). *)

InputColumns ==
    <<"Age", "BMI", "PhysicalActivity", "DietQuality", "SleepQuality",
      "PollutionExposure", "PollenExposure", "DustExposure",
      "LungFunctionFEV1", "LungFunctionFVC", "FEV1_FVC_Ratio", "SymptomScore",
      "Smoking", "PetAllergy", "FamilyHistoryAsthma", "HistoryOfAllergies">>

(* round(a / b, 3) in thousandths, a and b in thousandths: to nearest, an  *)
(* exact half to the even neighbour.                                       *)
RoundRatio(a, b) ==
    LET q == (a * Milli) \div b
        r == (a * Milli) % b
    IN  IF 2 * r < b THEN q
        ELSE IF 2 * r > b THEN q + 1
        ELSE IF q % 2 = 0 THEN q ELSE q + 1

(* input_dict from the widgets' values; w maps the fifteen widgets. *)
InputDict(w) ==
    [c \in Range(InputColumns) |->
        IF c = "FEV1_FVC_Ratio"
        THEN RoundRatio(w["LungFunctionFEV1"], w["LungFunctionFVC"])
        ELSE w[c]]

Widgets == Range(InputColumns) \ {"FEV1_FVC_Ratio"}

(* The widgets' default values (lines 37-51). *)
DefaultWidgets ==
    [c \in Widgets |->
        CASE c = "Age" -> 30 * Milli
          [] c = "BMI" -> 22500
          [] c = "PhysicalActivity" -> 5 * Milli
          [] c = "DietQuality" -> 5 * Milli
          [] c = "SleepQuality" -> 6 * Milli
          [] c = "PollutionExposure" -> 5 * Milli
          [] c = "PollenExposure" -> 5 * Milli
          [] c = "DustExposure" -> 5 * Milli
          [] c = "LungFunctionFEV1" -> 3200
          [] c = "LungFunctionFVC" -> 4 * Milli
          [] c = "SymptomScore" -> 2 * Milli
          [] OTHER -> 0]

(* Lines 77-79: every declared feature the row lacks becomes a column of 0. *)
ZeroFillMissing(row, features) ==
    [c \in DOMAIN row \cup Range(features) |->
        IF c \in DOMAIN row THEN row[c] ELSE 0]

(* A selection that keeps the columns in the frame's own order: the        *)
(* collected ones first, then the zero-filled ones.                        *)
SelectFeaturesUnordered(row, features) ==
    LET cols == SelectSeq(InputColumns, LAMBDA c : c \in Range(features)) \o
                SelectSeq(features, LAMBDA c : c \notin Range(InputColumns))
    IN  Frame(cols, <<[i \in DOMAIN cols |-> Num(row[cols[i]])]>>)

(* Line 80: input_data[expected_features], one row. *)
SelectFeatures(row, features) ==
    Frame(features, <<[i \in DOMAIN features |-> Num(row[features[i]])]>>)

AssembleInput(dict, features) ==
    SelectFeatures(ZeroFillMissing(dict, features), features)

(* The value of column c of a one-row frame. *)
ValueOf(frame, c) == frame.rows[1][IndexOf(frame.columns, c)][2]

-----------------------------------------------------------------------------
(* The narrative of a prediction (lines 84-112). *)

(* round(prob * 100, 2) in thousandths of a percent.  prob * 100 is a      *)
(* binary float: a value halfway between two hundredths rounds to either   *)
(* neighbour, depending on the float nearest to it.                        *)
RiskPercentOutcomes(p) ==
    LET t == (p * 100) \div (ProbScale \div Milli)
        q == t \div 10
        r == t % 10
    IN  IF r < 5 THEN {10 * q}
        ELSE IF r > 5 THEN {10 * (q + 1)}
        ELSE {10 * q, 10 * (q + 1)}

Label(prediction) == IF prediction = 1 THEN "Asthma Detected" ELSE "No Asthma"

(* Thresholds that count the boundary value into the lower tier. *)
RiskLevelInclusive(rp) ==
    IF rp <= 30 * Milli THEN "Low Risk"
    ELSE IF rp <= 70 * Milli THEN "Medium Risk"
    ELSE "High Risk"

RiskLevel(rp) ==
    IF rp < 30 * Milli THEN "Low Risk"
    ELSE IF rp < 70 * Milli THEN "Medium Risk"
    ELSE "High Risk"

AgeGroup(age) ==
    IF age < 13 * Milli THEN "Child"
    ELSE IF age < 60 * Milli THEN "Adult"
    ELSE "Senior"

SuggestedAction(rp) ==
    IF rp >= 70 * Milli THEN "Refer to pulmonologist urgently."
    ELSE IF rp >= 40 * Milli THEN "Suggest lung function test."
    ELSE "No immediate action needed."

risk_factors ==
    <<"PetAllergy", "PollenExposure", "DustExposure", "PollutionExposure",
      "Smoking", "SymptomScore", "HistoryOfAllergies", "FamilyHistoryAsthma">>

(* Line 109: the candidates that are columns of the assembled row. *)
AvailableFactors(frame) ==
    SelectSeq(risk_factors, LAMBDA f : f \in Range(frame.columns))

Min(a, b) == IF a < b THEN a ELSE b

(* Sequences of k distinct elements of S. *)
Arrangements(S, k) ==
    {s \in [1..k -> S] : \A i, j \in 1..k : i # j => s[i] # s[j]}

(* Line 111: sort_values(ascending=False).head(3).index.tolist().  The     *)
(* default sort kind is quicksort, which is not stable: candidates of      *)
(* equal value come out in any order.                                      *)
TopRisksOutcomes(frame) ==
    LET avail == AvailableFactors(frame)
        k == Min(3, Len(avail))
    IN  {s \in Arrangements(Range(avail), k) :
            /\ \A i \in 1..(k - 1) : ValueOf(frame, s[i]) >= ValueOf(frame, s[i + 1])
            /\ \A f \in Range(avail) \ Range(s) :
                  \A i \in 1..k : ValueOf(frame, f) <= ValueOf(frame, s[i])}

(* Line 112: ", ".join(top_risks). *)
RECURSIVE JoinRisks(_)
JoinRisks(s) ==
    IF s = <<>> THEN ""
    ELSE IF Len(s) = 1 THEN s[1]
    ELSE s[1] \o ", " \o JoinRisks(Tail(s))

-----------------------------------------------------------------------------
(* The record store (lines 26-30, 125-139, 152-162). *)

(* str.strip() on the notes of the model. *)
StripTable == [n \in {"", " ok "} |-> IF n = " ok " THEN "ok" ELSE ""]
Strip(n) == StripTable[n]

NarrativeColumns ==
    <<"Prediction", "RiskPercent", "RiskLevel", "AgeGroup", "TopRisks",
      "Action", "DoctorNote">>

RecordColumns(features) == <<"PatientName">> \o features \o NarrativeColumns

(* Lines 126-134: the one-row frame that is appended. *)
Record(name, note, frame, age, prediction, rp, tr) ==
    Frame(<<"PatientName">> \o frame.columns \o NarrativeColumns,
          << <<Str(name)>> \o frame.rows[1] \o
             <<Str(Label(prediction)), Num(rp), Str(RiskLevel(rp)),
               Str(AgeGroup(age)), Str(JoinRisks(tr)),
               Str(SuggestedAction(rp)), Str(Strip(note))>> >>)

(* A row of columns `from` laid out on columns `to`, NaN where it has none. *)
Realign(row, from, to) ==
    [j \in DOMAIN to |->
        IF to[j] \in Range(from) THEN row[IndexOf(from, to[j])] ELSE NaN]

(* A concat that keeps only the frame being appended. *)
ConcatKeepsNew(a, b) == b

(* pd.concat([a, b], ignore_index=True): the union of the columns, a's     *)
(* first, and a's rows followed by b's.                                    *)
Concat(a, b) ==
    LET cols == a.columns \o SelectSeq(b.columns, LAMBDA c : c \notin Range(a.columns))
    IN  Frame(cols,
              [i \in DOMAIN a.rows |-> Realign(a.rows[i], a.columns, cols)] \o
              [i \in DOMAIN b.rows |-> Realign(b.rows[i], b.columns, cols)])

(* to_csv writes a string as its characters, a number as its numeral and   *)
(* NaN as the empty field.                                                 *)
FormatCell(c) ==
    IF c[1] = "num" THEN Dec(c[2])
    ELSE IF c[1] = "nan" THEN Txt("")
    ELSE IF c[2] \in DOMAIN NumericText THEN Dec(NumericText[c[2]])
    ELSE Txt(c[2])

(* DataFrame.to_csv(RECORD_FILE, index=False), when it succeeds. *)
ToCsv(frame) ==
    [exists |-> TRUE,
     header |-> frame.columns,
     lines |-> [i \in DOMAIN frame.rows |->
                  [j \in DOMAIN frame.columns |-> FormatCell(frame.rows[i][j])]]]

IsNA(fld) == fld[1] = "txt" /\ fld[2] \in NAValues

(* read_csv infers a column's type from all its fields: numeric when every *)
(* field is a numeral or missing, otherwise strings.                       *)
NumericColumn(lines, j) ==
    \A i \in DOMAIN lines : lines[i][j][1] = "dec" \/ IsNA(lines[i][j])

NumeralOf(n) == CHOOSE t \in DOMAIN NumericText : NumericText[t] = n

ParseField(fld, numeric) ==
    IF IsNA(fld) THEN NaN
    ELSE IF fld[1] = "dec"
         THEN (IF numeric THEN Num(fld[2]) ELSE Str(NumeralOf(fld[2])))
    ELSE Str(fld[2])

(* pd.read_csv(RECORD_FILE) of a file with a header line. *)
ReadCsv(f) ==
    Frame(f.header,
          [i \in DOMAIN f.lines |->
             [j \in DOMAIN f.header |->
                ParseField(f.lines[i][j], NumericColumn(f.lines, j))]])

(* read_csv raises EmptyDataError on a file with no header line. *)
LoadFails(f) == f.exists /\ f.header = <<>>

(* Lines 27-30. *)
LoadRecords(f) == IF f.exists THEN ReadCsv(f) ELSE EmptyFrame

(* A clear that leaves the record file in place. *)
RemoveFileKeeps(f) == f

(* Lines 160-161. *)
RemoveFile(f) == IF f.exists THEN NoFile ELSE f

(* What a failed to_csv leaves on disk: the old contents when the file     *)
(* could not be opened; otherwise the file was truncated on opening and    *)
(* holds nothing or the lines written before the failure.                  *)
FailedWriteOutcomes(old, new) ==
    {old, ZeroByteFile} \cup
    {[new EXCEPT !.lines = SubSeq(new.lines, 1, k)] : k \in 0..(Len(new.lines) - 1)}

(* DataFrame.to_excel("asthma_predictions.xlsx", index=False): the column  *)
(* names as the header row, then the rows.                                 *)
ToExcel(frame) == [exists |-> TRUE, header |-> frame.columns, rows |-> frame.rows]
NoXlsx == [exists |-> FALSE, header |-> <<>>, rows |-> <<>>]

-----------------------------------------------------------------------------
(* One session: every action is one rerun of the script. *)

Names == {"John Doe", "42"}
Notes == DOMAIN StripTable

(* Widget values of the store's runs: the defaults with distinct exposures. *)
StoreWidgets ==
    {[DefaultWidgets EXCEPT !["PollutionExposure"] = 7 * Milli,
                            !["PollenExposure"] = 6 * Milli]}

(* Feature lists a model may declare: some of the collected columns, or a  *)
(* list that also names a column the form does not collect.                *)
StoreFeatureLists ==
    {<<"Age", "BMI", "PollenExposure", "DustExposure", "PollutionExposure",
       "SymptomScore">>,
     <<"Smoking", "Wheezing", "Age">>}

(* What the predictor may answer: a probability and a label. *)
StoreAnswers == {<<29990, 0>>}

IdlePredict ==
    /\ input_dict = InputDict(DefaultWidgets)
    /\ input_data = EmptyFrame
    /\ prob = 0
    /\ risk_percent = 0
    /\ risk_level = ""
    /\ action = ""
    /\ top_risks = <<>>
    /\ pc = "off"

IdleSessions ==
    /\ sessions = <<>>
    /\ reported = <<>>

IdleStore ==
    /\ patient_records = EmptyFrame
    /\ file = NoFile
    /\ xlsx = NoXlsx
    /\ show_history = FALSE
    /\ error = "none"
    /\ lastOp = "start"
    /\ erased = 0
    /\ appended = <<>>

Init ==
    /\ expected_features \in StoreFeatureLists
    /\ IdleStore
    /\ IdlePredict
    /\ IdleSessions

(* A rerun with no button pressed: a widget of the form changed. *)
FormChange ==
    /\ ~LoadFails(file)
    /\ patient_records' = LoadRecords(file)
    /\ error' = "none"
    /\ lastOp' = "form"
    /\ erased' = 0
    /\ UNCHANGED <<expected_features, file, xlsx, show_history, appended>>
    /\ UNCHANGED <<predictVars, concVars>>

(* Lines 142-150: the checkbox is toggled; the table shown is no state. *)
ToggleHistory ==
    /\ show_history' = ~show_history
    /\ ~LoadFails(file)
    /\ patient_records' = LoadRecords(file)
    /\ error' = "none"
    /\ lastOp' = "toggle"
    /\ erased' = 0
    /\ UNCHANGED <<expected_features, file, xlsx, appended>>
    /\ UNCHANGED <<predictVars, concVars>>

LastRow(frame) == frame.rows[Len(frame.rows)]

(* Lines 83-138 of a rerun with the predict button pressed, up to the      *)
(* concat.                                                                 *)
PredictRun(name, note, w, p, prediction) ==
    /\ ~LoadFails(file)
    /\ Len(LoadRecords(file).rows) < MaxRecords
    /\ \E rp \in RiskPercentOutcomes(p) :
       \E tr \in TopRisksOutcomes(AssembleInput(InputDict(w), expected_features)) :
         LET frame == AssembleInput(InputDict(w), expected_features)
             record == Record(name, note, frame, w["Age"], prediction, rp, tr)
         IN  patient_records' = Concat(LoadRecords(file), record)
    /\ lastOp' = "predict"
    /\ erased' = 0
    /\ UNCHANGED <<expected_features, xlsx, show_history>>
    /\ UNCHANGED <<predictVars, concVars>>

(* Lines 83-139: the predict button, the record file written. *)
Predict(name, note, w, p, prediction) ==
    /\ PredictRun(name, note, w, p, prediction)
    /\ file' = ToCsv(patient_records')
    /\ error' = "none"
    /\ appended' = Append(appended, LastRow(patient_records'))

(* Lines 153-155: the export button. *)
Export ==
    /\ ~LoadFails(file)
    /\ patient_records' = LoadRecords(file)
    /\ xlsx' = ToExcel(LoadRecords(file))
    /\ error' = "none"
    /\ lastOp' = "export"
    /\ erased' = 0
    /\ UNCHANGED <<expected_features, file, show_history, appended>>
    /\ UNCHANGED <<predictVars, concVars>>

(* Lines 158-162: the clear button. *)
Clear ==
    /\ ~LoadFails(file)
    /\ patient_records' = EmptyFrame
    /\ file' = RemoveFile(file)
    /\ error' = "none"
    /\ lastOp' = "clear"
    /\ erased' = Len(LoadRecords(file).rows)
    /\ appended' = <<>>
    /\ UNCHANGED <<expected_features, xlsx, show_history>>
    /\ UNCHANGED <<predictVars, concVars>>

Next ==
    \/ FormChange
    \/ ToggleHistory
    \/ \E name \in Names, note \in Notes, w \in StoreWidgets, a \in StoreAnswers :
          Predict(name, note, w, a[1], a[2])
    \/ Export
    \/ Clear

Spec == Init /\ [][Next]_vars

-----------------------------------------------------------------------------
(* One session whose writes of the record file can fail. *)

(* Line 139 raises: the rerun stops there, the store already reassigned. *)
PredictWriteFails(name, note, w, p, prediction) ==
    /\ PredictRun(name, note, w, p, prediction)
    /\ file' \in FailedWriteOutcomes(file, ToCsv(patient_records'))
    /\ error' = "write"
    /\ appended' = <<>>

(* Line 28 raises: the rerun stops there, with nothing else of it run. *)
LoadCrash(op) ==
    /\ LoadFails(file)
    /\ error' = "load"
    /\ lastOp' = op
    /\ erased' = 0
    /\ show_history' = IF op = "toggle" THEN ~show_history ELSE show_history
    /\ UNCHANGED <<expected_features, patient_records, file, xlsx, appended>>
    /\ UNCHANGED <<predictVars, concVars>>

NextFaults ==
    \/ Next
    \/ \E name \in Names, note \in Notes, w \in StoreWidgets, a \in StoreAnswers :
          PredictWriteFails(name, note, w, a[1], a[2])
    \/ \E op \in {"form", "toggle", "predict", "export", "clear"} : LoadCrash(op)

SpecFaults == Init /\ [][NextFaults]_vars

-----------------------------------------------------------------------------
(* Properties of the record store. *)

(* C1: appending N records one by one with Predict and then reloading the  *)
(* store from the record file yields exactly the N rows that were          *)
(* appended, in append order, with identical field values.                 *)
C1_RoundTrip ==
    /\ LoadRecords(file).rows = appended
    /\ appended # <<>> => LoadRecords(file).columns = RecordColumns(expected_features)

(* C2: after a rerun that ran the clear branch, the in-memory store is     *)
(* empty, the record file does not exist, and a load returns the empty     *)
(* store, so no record appended before the clear is visible.               *)
C2_ClearErases ==
    (lastOp = "clear" /\ error = "none") =>
        /\ patient_records = EmptyFrame
        /\ ~file.exists
        /\ LoadRecords(file) = EmptyFrame

(* C2's case: a clear that found a record file with two or more records. *)
C2_ClearedRecords ==
    /\ lastOp = "clear"
    /\ error = "none"
    /\ erased >= 2
    /\ ~file.exists

(* C6: an export made while the store is empty writes a spreadsheet with   *)
(* the record columns as its header row and no data rows.                  *)
C6_EmptyExportHasHeader ==
    (lastOp = "export" /\ error = "none" /\ patient_records.rows = <<>>) =>
        xlsx = [exists |-> TRUE,
                header |-> RecordColumns(expected_features),
                rows |-> <<>>]

(* The store `new` is the store `old` with at most one row added after it. *)
AtMostOneAdded(old, new) ==
    /\ Len(new.rows) <= Len(old.rows) + 1
    /\ Len(new.rows) >= Len(old.rows)
    /\ \A i \in DOMAIN old.rows : new.rows[i] = old.rows[i]

(* The header line and the data lines of a file (none when it is absent). *)
Contents(f) == <<f.header, f.lines>>

(* C7: when the write of the record file fails during an append, the       *)
(* record file keeps its contents from before the append and the in-memory *)
(* store is the loaded store with at most the attempted record added.      *)
C7_FailedWriteKeepsFile ==
    [][error' = "write" =>
          /\ Contents(file') = Contents(file)
          /\ AtMostOneAdded(LoadRecords(file), patient_records')]_vars

(* C8: a rerun that serves a form change, a show-history toggle or an      *)
(* export leaves the in-memory store and the record file unchanged.        *)
C8_OnlyAppendAndClearChange ==
    [][lastOp' \in {"form", "toggle", "export"} =>
          /\ patient_records' = patient_records
          /\ file' = file]_vars

(* C10: after any sequence of reruns that completed without error, the     *)
(* in-memory store equals what a load of the record file returns, and the  *)
(* record file exists exactly when the store holds a record.               *)
C10_MemoryMatchesDisk ==
    /\ patient_records = LoadRecords(file)
    /\ file.exists <=> patient_records.rows # <<>>

-----------------------------------------------------------------------------
(* The feature row alone: lines 55-80 applied to a form and a feature list. *)

(* Names a model may declare: collected ones and two the form lacks. *)
FeatureUniverse ==
    {"Age", "BMI", "FEV1_FVC_Ratio", "Smoking", "PetAllergy", "DustExposure",
     "Wheezing", "Gender"}

FeatureLists ==
    {InputColumns} \cup
    UNION {Arrangements(FeatureUniverse, k) : k \in 0..MaxFeatures}

AssembleWidgets ==
    {DefaultWidgets,
     [DefaultWidgets EXCEPT !["Smoking"] = Milli, !["PetAllergy"] = Milli],
     [DefaultWidgets EXCEPT !["Age"] = 0, !["DustExposure"] = 10 * Milli,
                            !["LungFunctionFEV1"] = 500, !["LungFunctionFVC"] = 6 * Milli]}

FormFilled(widgets, lists) ==
    /\ expected_features \in lists
    /\ input_dict \in {InputDict(w) : w \in widgets}
    /\ input_data = EmptyFrame
    /\ prob = 0
    /\ risk_percent = 0
    /\ risk_level = ""
    /\ action = ""
    /\ top_risks = <<>>
    /\ pc = "form"

InitAssemble ==
    /\ FormFilled(AssembleWidgets, FeatureLists)
    /\ IdleStore
    /\ IdleSessions

(* Lines 74-80. *)
Assemble ==
    /\ pc = "form"
    /\ input_data' = AssembleInput(input_dict, expected_features)
    /\ pc' = "assembled"
    /\ UNCHANGED <<input_dict, prob, risk_percent, risk_level, action, top_risks>>
    /\ UNCHANGED <<storeVars, concVars>>

SpecAssemble == InitAssemble /\ [][Assemble]_vars

(* C3: the row handed to the predictor has exactly the declared feature    *)
(* names as columns, in the declared order; a declared name the form does  *)
(* not collect has value 0 and a declared collected name keeps its value.  *)
C3_FeatureVectorSchema ==
    pc = "assembled" =>
        /\ input_data.columns = expected_features
        /\ Len(input_data.rows) = 1
        /\ DOMAIN input_data.rows[1] = DOMAIN expected_features
        /\ \A i \in DOMAIN expected_features :
              input_data.rows[1][i] =
                 IF expected_features[i] \in Range(InputColumns)
                 THEN Num(input_dict[expected_features[i]])
                 ELSE Num(0)

(* C3's case: a list that names an uncollected column before a collected   *)
(* one with a non-zero value, out of the form's order, and omits others.   *)
C3_DriftedSchema ==
    /\ pc = "assembled"
    /\ expected_features = <<"Wheezing", "Smoking", "Age">>
    /\ input_data.rows[1] = <<Num(0), Num(Milli), Num(30 * Milli)>>

-----------------------------------------------------------------------------
(* The risk tier alone: lines 84-101 applied to a probability. *)

InitTier ==
    /\ expected_features = InputColumns
    /\ input_dict = InputDict(DefaultWidgets)
    /\ input_data = AssembleInput(InputDict(DefaultWidgets), InputColumns)
    /\ prob \in 0..ProbScale
    /\ risk_percent = 0
    /\ risk_level = ""
    /\ action = ""
    /\ top_risks = <<>>
    /\ pc = "predicted"
    /\ IdleStore
    /\ IdleSessions

(* Lines 86-101. *)
Narrate ==
    /\ pc = "predicted"
    /\ \E rp \in RiskPercentOutcomes(prob) :
          /\ risk_percent' = rp
          /\ risk_level' = RiskLevel(rp)
          /\ action' = SuggestedAction(rp)
    /\ pc' = "narrated"
    /\ UNCHANGED <<input_dict, input_data, prob, top_risks>>
    /\ UNCHANGED <<storeVars, concVars>>

SpecTier == InitTier /\ [][Narrate]_vars

(* prob * 100 in thousandths of a percent (exact on the grid). *)
PercentMilli(p) == (p * 100) \div (ProbScale \div Milli)

(* C4 as stated: the tier is Low when prob * 100 < 30, Medium when         *)
(* 30 <= prob * 100 < 70 and High when prob * 100 >= 70.                   *)
C4_TierOfProbability ==
    pc = "narrated" =>
        risk_level = IF PercentMilli(prob) < 30 * Milli THEN "Low Risk"
                     ELSE IF PercentMilli(prob) < 70 * Milli THEN "Medium Risk"
                     ELSE "High Risk"

(* C4 amended: the tier is decided by the percentage rounded to two        *)
(* decimals: Low below 29.995, Medium between 29.995 and 69.995, High      *)
(* above 69.995, and either neighbour at exactly 29.995 or 69.995.         *)
C4_TierOfRoundedPercent ==
    pc = "narrated" =>
        LET t == PercentMilli(prob)
            lo == 30 * Milli - 5
            hi == 70 * Milli - 5
        IN  /\ t < lo => risk_level = "Low Risk"
            /\ (lo < t /\ t < hi) => risk_level = "Medium Risk"
            /\ t > hi => risk_level = "High Risk"
            /\ t = lo => risk_level \in {"Low Risk", "Medium Risk"}
            /\ t = hi => risk_level \in {"Medium Risk", "High Risk"}
            /\ risk_level = "Low Risk" <=> risk_percent < 30 * Milli
            /\ risk_level = "High Risk" <=> risk_percent >= 70 * Milli

(* C4's case: a probability strictly below 0.30 that is labelled Medium. *)
C4_BelowThirtyMedium ==
    /\ pc = "narrated"
    /\ PercentMilli(prob) < 30 * Milli
    /\ PercentMilli(prob) > 30 * Milli - 5
    /\ risk_level = "Medium Risk"

-----------------------------------------------------------------------------
(* The top risk factors alone: lines 74-80 and 103-111. *)

RankWidgets ==
    {[DefaultWidgets EXCEPT !["PollenExposure"] = e[1], !["DustExposure"] = e[2],
                            !["PollutionExposure"] = e[3], !["SymptomScore"] = y,
                            !["Smoking"] = b[1], !["PetAllergy"] = b[2],
                            !["HistoryOfAllergies"] = b[3],
                            !["FamilyHistoryAsthma"] = b[4]] :
        e \in [1..3 -> {0, 5 * Milli, 10 * Milli}],
        y \in {2 * Milli, 6 * Milli},
        b \in [1..4 -> {0, Milli}]}

RankFeatureLists ==
    {InputColumns,
     <<"Smoking", "Wheezing", "Age">>,
     <<"SymptomScore", "Age", "PetAllergy", "DustExposure", "PollenExposure">>}

InitRank ==
    /\ FormFilled(RankWidgets, RankFeatureLists)
    /\ IdleStore
    /\ IdleSessions

(* Lines 74-80 and 103-111. *)
RankRisks ==
    /\ pc = "form"
    /\ input_data' = AssembleInput(input_dict, expected_features)
    /\ top_risks' \in TopRisksOutcomes(input_data')
    /\ pc' = "ranked"
    /\ UNCHANGED <<input_dict, prob, risk_percent, risk_level, action>>
    /\ UNCHANGED <<storeVars, concVars>>

SpecRank == InitRank /\ [][RankRisks]_vars

(* Candidate f ranks before candidate g: a higher raw value, or an equal   *)
(* value and an earlier place in the candidate list.                       *)
RanksBefore(f, g) ==
    \/ input_dict[f] > input_dict[g]
    \/ /\ input_dict[f] = input_dict[g]
       /\ IndexOf(risk_factors, f) < IndexOf(risk_factors, g)

(* C5: the top risk factors are three distinct candidates of the fixed     *)
(* list, in descending value order, equal values in the list's order, and  *)
(* every candidate left out ranks after every one listed.                  *)
C5_TopThreeStable ==
    pc = "ranked" =>
        /\ Len(top_risks) = 3
        /\ \A i \in 1..3 : top_risks[i] \in Range(risk_factors)
        /\ \A i, j \in 1..3 : i < j => RanksBefore(top_risks[i], top_risks[j])
        /\ \A f \in Range(risk_factors) \ Range(top_risks) :
              \A i \in 1..3 : RanksBefore(top_risks[i], f)

-----------------------------------------------------------------------------
(* Concurrent sessions.  Streamlit runs each session's script in a thread  *)
(* of its own; the reruns of two sessions interleave at their accesses to  *)
(* the record file: the load of lines 27-28 and the write of line 139.     *)

SessionCounts == {1, 2}

ConcFeatures == <<"Smoking", "Wheezing", "Age">>

(* The sessions leave the note at its default, the empty text. *)
ConcNotes == {""}

InitConc ==
    /\ expected_features = ConcFeatures
    /\ IdleStore
    /\ IdlePredict
    /\ sessions \in {[s \in 1..n |-> [pc |-> "idle",
                                     patient_records |-> EmptyFrame,
                                     appends |-> 0]] : n \in SessionCounts}
    /\ reported = <<>>

(* Lines 26-138 of session s's rerun with the predict button pressed: the  *)
(* file is read once, the rest works on the session's own store.           *)
PredictLoad(s, name, note, w, p, prediction) ==
    /\ sessions[s].pc = "idle"
    /\ sessions[s].appends < MaxAppends
    /\ ~LoadFails(file)
    /\ \E rp \in RiskPercentOutcomes(p) :
       \E tr \in TopRisksOutcomes(AssembleInput(InputDict(w), expected_features)) :
         LET frame == AssembleInput(InputDict(w), expected_features)
             record == Record(name, note, frame, w["Age"], prediction, rp, tr)
         IN  sessions' = [sessions EXCEPT
                ![s].patient_records = Concat(LoadRecords(file), record),
                ![s].pc = "concatenated"]
    /\ UNCHANGED <<storeVars, predictVars, reported>>

(* Line 139 of that rerun, and its end: the result stays displayed. *)
PredictWrite(s) ==
    /\ sessions[s].pc = "concatenated"
    /\ file' = ToCsv(sessions[s].patient_records)
    /\ reported' = Append(reported, LastRow(sessions[s].patient_records))
    /\ sessions' = [sessions EXCEPT ![s].pc = "idle",
                                    ![s].appends = sessions[s].appends + 1]
    /\ UNCHANGED <<expected_features, patient_records, xlsx, show_history,
                   error, lastOp, erased, appended, predictVars>>

NextConc ==
    \/ \E s \in DOMAIN sessions, name \in Names, note \in ConcNotes,
          w \in StoreWidgets, a \in StoreAnswers :
          PredictLoad(s, name, note, w, a[1], a[2])
    \/ \E s \in DOMAIN sessions : PredictWrite(s)

SpecConc == InitConc /\ [][NextConc]_vars

Count(seq, x) == Cardinality({i \in DOMAIN seq : seq[i] = x})

(* The lines of the record file a row is written as. *)
LineOf(row) == [j \in DOMAIN row |-> FormatCell(row[j])]

(* The record file lacks a record that a session appended and reported. *)
LostUpdate ==
    \E i \in DOMAIN reported :
        Count(file.lines, LineOf(reported[i])) <
        Count([k \in DOMAIN reported |-> LineOf(reported[k])], LineOf(reported[i]))

(* C9: a state in which the record file lacks a reported record is reached *)
(* only with two sessions; with a single session there is none.            *)
C9_LostUpdateNeedsTwoSessions == LostUpdate => Len(sessions) >= 2

(* C9's case: two sessions have each appended and written, both reruns are *)
(* over, and the file lacks one of the two records.                        *)
C9_LostUpdateReached ==
    /\ Len(sessions) = 2
    /\ \A s \in DOMAIN sessions : sessions[s].pc = "idle" /\ sessions[s].appends = 1
    /\ Len(file.lines) = 1
    /\ LostUpdate

=============================================================================
